---- MODULE Spec2Model ----
(***************************************************************************)
(* Model of rocketcrap/ldrc-commom: the semaphore based ReadWriteLock, the *)
(* BaseSubsystem status accessors, TickableSubsystem / ThreadedSubsystem   *)
(* start(), DataThing callbacks and the SubsystemManagerClass bring-up.    *)
(***************************************************************************)
EXTENDS Integers, Sequences, FiniteSets, TLC

\* ------------------------------------------------------------------------
\* Program constants
\* ------------------------------------------------------------------------
MAX_READERS == 8

NULL == "NULL"

INIT == "INIT"
READY == "READY"
FAULT == "FAULT"
RUNNING == "RUNNING"
STOPPED == "STOPPED"

Status == {INIT, READY, FAULT, RUNNING, STOPPED}

\* the bound on `depth` in the dependency loop of descendAndStartOrSetup
MAX_DEPTH == 8

\* capacity of DataThing::callbacks
MAX_CALLBACKS == 8

\* ------------------------------------------------------------------------
\* Bounds of the model
\* ------------------------------------------------------------------------
\* threads using one ReadWriteLock; the first NumWriters of them also call
\* Lock()/UnLock(), all of them call RLock()/RUnlock()
NumThreads == 9
NumWriters == 2

\* the mutex is free
NoThread == 0

Threads == 1..NumThreads
Writers == 1..NumWriters

\* threads calling getStatus()/setStatus() on one subsystem
NumStatusThreads == 3

StatusThreads == 1..NumStatusThreads

\* calls of the manager's setup()/start() made by the program
MaxCalls == 3

\* frames of descendAndStartOrSetup the stack of the calling task can hold
MaxStack == 12

\* direct calls of ThreadedSubsystem::start() on one subsystem
MaxStarts == 3

\* calls of DataThing::registerCallback() on one DataThing
MaxRegs == 10

\* threads that only write in the liveness check of Lock()
NumLockers == 3
Lockers == 1..NumLockers

\* threads that take the read lock while they hold it
NumNesters == 3
Nesters == 1..NumNesters

\* the threads that call registerCallback() while another thread runs
\* callCallbacks(), and the number of registerCallback() calls they make
NumRegistrars == 2
Registrars == 1..NumRegistrars
Notifier == NumRegistrars + 1
MaxConcRegs == 3

\* the threads of the starvation scenario: one writer and the readers
NumStarvers == 4
Starvers == 1..NumStarvers
StarvedWriter == NumStarvers
StarveReaders == Starvers \ {StarvedWriter}

VARIABLES
    sem,        \* count of the counting semaphore (free reader slots)
    mutex,      \* holder of the mutex, or NoThread
    tpc,        \* per thread: position inside RLock/RUnlock/Lock/UnLock
    tcount,     \* per thread: the local `count` of Lock()/UnLock()
    status,     \* BaseSubsystem::status of every subsystem
    storing,    \* threads that are in the middle of the store `status = newStatus`
    top,        \* per thread: the accessor it is inside ("get", "set") or "none"
    targ,       \* per thread: the newStatus argument of setStatus()
    trc,        \* per thread: the local `rc` of getStatus(), NULL before the read
    lastWrite,  \* history: value of the most recent completed store to status
    topo,       \* the program: its Spec objects, subsystems and dependency arrays
    regOrder,   \* the addSubsystem() calls the static constructors make, in order
    regIdx,     \* number of addSubsystem() calls made so far
    setupFlag,  \* `static bool setup` of addSubsystem()
    specs,      \* SubsystemManagerClass::specs, head of the list
    next,       \* Spec::next of every Spec object
    taskHandle, \* ThreadedSubsystem::taskHandle of every subsystem
    mgrPc,      \* "idle", or the manager operation being executed
    cur,        \* the local `spec` of setup()/start()
    stack,      \* frames of descendAndStartOrSetup, innermost last
    stuck,      \* "no", or why the bring-up thread can never return
    calls,      \* history: the setup()/start() calls made so far
    log,        \* history: completed Setup()/Start() calls of subsystems
    numCallbacks, \* DataThing::numCallbacks
    callbacks,  \* DataThing::callbacks, slots 0..MAX_CALLBACKS-1
    dpc,        \* "idle", or "loop" inside callCallbacks()
    dn,         \* the local `n` of callCallbacks()
    di,         \* the local `i` of callCallbacks()
    invoked,    \* history: callbacks invoked by the latest callCallbacks()
    regCalls,   \* history: the callbacks passed to registerCallback() so far
    quit,       \* the reader threads have been told to stop taking the lock
    dsnap,      \* history: the callbacks stored when callCallbacks() read the count
    rcb,        \* per thread: the callback argument of registerCallback()
    rpc         \* per thread: position inside registerCallback(), or "none"

lockVars == <<sem, mutex, tpc, tcount>>
statusVars == <<status, storing, top, targ, trc, lastWrite>>

mgrVars == <<topo, regOrder, regIdx, setupFlag, specs, next, taskHandle, mgrPc,
             cur, stack, stuck, calls, log>>

dataVars == <<numCallbacks, callbacks, dpc, dn, di, invoked, regCalls>>

concVars == <<quit, dsnap, rcb, rpc>>

vars == <<sem, mutex, tpc, tcount, status, storing, top, targ, trc, lastWrite,
          topo, regOrder, regIdx, setupFlag, specs, next, taskHandle, mgrPc,
          cur, stack, stuck, calls, log,
          numCallbacks, callbacks, dpc, dn, di, invoked, regCalls,
          quit, dsnap, rcb, rpc>>

\* ------------------------------------------------------------------------
\* ReadWriteLock (src/unnamed/part_000)
\* ------------------------------------------------------------------------

\* xSemaphoreGive on a counting semaphore: fails (no change) at max count
SemGive(s) == IF s < MAX_READERS THEN s + 1 ELSE s

\* a loop bound that is one short of the number of reader slots
LockSlotsShort == MAX_READERS - 1

\* number of reader slots Lock() takes and UnLock() gives back
LockSlots == MAX_READERS

\* ReadWriteLock::ReadWriteLock(), used by the threads T
LockInit(T) ==
    /\ sem = MAX_READERS
    /\ mutex = NoThread
    /\ tpc = [t \in T |-> "idle"]
    /\ tcount = [t \in T |-> 0]

\* a thread calls RLock(): it now waits in xSemaphoreTake(sem, portMAX_DELAY)
RLockCall(t) ==
    /\ tpc[t] = "idle"
    /\ tpc' = [tpc EXCEPT ![t] = "rlock"]
    /\ UNCHANGED <<sem, mutex, tcount>>

\* an RLock() that lets a thread that is inside Lock() go first
RLockAfterWriter(t) ==
    /\ tpc[t] = "rlock"
    /\ sem > 0
    /\ mutex = NoThread
    /\ sem' = sem - 1
    /\ tpc' = [tpc EXCEPT ![t] = "reading"]
    /\ UNCHANGED <<mutex, tcount>>

\* RLock(): xSemaphoreTake(sem) succeeds and RLock() returns
RLock(t) ==
    /\ tpc[t] = "rlock"
    /\ sem > 0
    /\ sem' = sem - 1
    /\ tpc' = [tpc EXCEPT ![t] = "reading"]
    /\ UNCHANGED <<mutex, tcount>>

\* RUnlock(): xSemaphoreGive(sem)
RUnlock(t) ==
    /\ tpc[t] = "reading"
    /\ sem' = SemGive(sem)
    /\ tpc' = [tpc EXCEPT ![t] = "idle"]
    /\ UNCHANGED <<mutex, tcount>>

\* a thread calls Lock(): it now waits in xSemaphoreTake(mutex, portMAX_DELAY)
LockCall(t) ==
    /\ tpc[t] = "idle"
    /\ tpc' = [tpc EXCEPT ![t] = "lock_mutex"]
    /\ UNCHANGED <<sem, mutex, tcount>>

\* a Lock() that does not wait for the mutex
LockMutexNoWait(t) ==
    /\ tpc[t] = "lock_mutex"
    /\ mutex' = t
    /\ tcount' = [tcount EXCEPT ![t] = 0]
    /\ tpc' = [tpc EXCEPT ![t] = IF 0 < LockSlots THEN "lock_sem" ELSE "writing"]
    /\ UNCHANGED sem

\* Lock(): xSemaphoreTake(mutex) succeeds, count = 0
LockMutex(t) ==
    /\ tpc[t] = "lock_mutex"
    /\ mutex = NoThread
    /\ mutex' = t
    /\ tcount' = [tcount EXCEPT ![t] = 0]
    /\ tpc' = [tpc EXCEPT ![t] = IF 0 < LockSlots THEN "lock_sem" ELSE "writing"]
    /\ UNCHANGED sem

\* Lock(): one iteration of the for loop; returns after the last one
LockSem(t) ==
    /\ tpc[t] = "lock_sem"
    /\ sem > 0
    /\ sem' = sem - 1
    /\ tcount' = [tcount EXCEPT ![t] = tcount[t] + 1]
    /\ tpc' = [tpc EXCEPT ![t] =
                 IF tcount[t] + 1 < LockSlots THEN "lock_sem" ELSE "writing"]
    /\ UNCHANGED mutex

\* a thread that holds the write lock calls UnLock(): count = 0
UnLockCall(t) ==
    /\ tpc[t] = "writing"
    /\ tcount' = [tcount EXCEPT ![t] = 0]
    /\ tpc' = [tpc EXCEPT ![t] = IF 0 < LockSlots THEN "unlock_sem" ELSE "unlock_mutex"]
    /\ UNCHANGED <<sem, mutex>>

\* UnLock(): one iteration of the for loop
UnLockSem(t) ==
    /\ tpc[t] = "unlock_sem"
    /\ sem' = SemGive(sem)
    /\ tcount' = [tcount EXCEPT ![t] = tcount[t] + 1]
    /\ tpc' = [tpc EXCEPT ![t] =
                 IF tcount[t] + 1 < LockSlots THEN "unlock_sem" ELSE "unlock_mutex"]
    /\ UNCHANGED mutex

\* UnLock(): xSemaphoreGive(mutex) and return
UnLockMutex(t) ==
    /\ tpc[t] = "unlock_mutex"
    /\ mutex' = NoThread
    /\ tcount' = [tcount EXCEPT ![t] = 0]
    /\ tpc' = [tpc EXCEPT ![t] = "idle"]
    /\ UNCHANGED sem

\* between the return of RLock() and the call of RUnlock()
ReadHolder(t) == tpc[t] = "reading"

\* between the return of Lock() and the call of UnLock()
WriteHolder(t) == tpc[t] = "writing"

\* no thread is inside getStatus()/setStatus()
AccessorsUnused ==
    /\ storing = {}
    /\ top = <<>>
    /\ targ = <<>>
    /\ trc = <<>>
    /\ lastWrite = INIT

\* there is no subsystem
StatusUnused ==
    /\ status = <<>>
    /\ AccessorsUnused

\* there is no DataThing
DataUnused ==
    /\ numCallbacks = 0
    /\ callbacks = <<>>
    /\ dpc = "idle"
    /\ dn = 0
    /\ di = 0
    /\ invoked = <<>>
    /\ regCalls = <<>>

\* no reader is told to stop and no thread runs registerCallback() or
\* callCallbacks() next to another
ConcUnused ==
    /\ quit = FALSE
    /\ dsnap = <<>>
    /\ rcb = <<>>
    /\ rpc = <<>>

\* no program with a SubsystemManager is running
ManagerUnused ==
    /\ topo = <<>>
    /\ regOrder = <<>>
    /\ regIdx = 0
    /\ setupFlag = FALSE
    /\ specs = NULL
    /\ next = <<>>
    /\ taskHandle = <<>>
    /\ mgrPc = "idle"
    /\ cur = NULL
    /\ stack = <<>>
    /\ stuck = "no"
    /\ calls = <<>>
    /\ log = <<>>

InitLock ==
    /\ LockInit(Threads)
    /\ StatusUnused
    /\ ManagerUnused
    /\ DataUnused
    /\ ConcUnused

NextLock ==
    /\ \E t \in Threads :
        \/ RLockCall(t)
        \/ RLock(t)
        \/ RUnlock(t)
        \/ t \in Writers /\ LockCall(t)
        \/ LockMutex(t)
        \/ LockSem(t)
        \/ UnLockCall(t)
        \/ UnLockSem(t)
        \/ UnLockMutex(t)
    /\ UNCHANGED statusVars
    /\ UNCHANGED mgrVars
    /\ UNCHANGED <<dataVars, concVars>>

SpecLock == InitLock /\ [][NextLock]_vars

\* C1: while a thread holds the write lock no other thread holds the lock
\* as reader or writer, and never more than 8 threads hold it as readers.
C1_MutualExclusion ==
    /\ \A t \in Threads : WriteHolder(t) =>
          \A u \in Threads \ {t} : ~ReadHolder(u) /\ ~WriteHolder(u)
    /\ Cardinality({t \in Threads : ReadHolder(t)}) <= MAX_READERS

\* a writer holds the lock while a reader and another writer are waiting
C1_Witness ==
    \E t \in Threads :
        /\ WriteHolder(t)
        /\ \E u \in Threads \ {t} : tpc[u] = "rlock"
        /\ \E u \in Threads \ {t} : tpc[u] = "lock_mutex"

\* ------------------------------------------------------------------------
\* BaseSubsystem::getStatus / setStatus (src/src/subsystem.cpp)
\* ------------------------------------------------------------------------

\* the one subsystem whose accessors the threads call
Subject == "S"

\* `const auto rc = status`: a load that overlaps a store of another thread is
\* a data race and may yield any value, otherwise it yields the stored value
LoadStatus(s) == IF storing = {} THEN {status[s]} ELSE Status

\* getStatus(): rwLock.RLock() is called
GetStatusCall(t) ==
    /\ top[t] = "none"
    /\ RLockCall(t)
    /\ top' = [top EXCEPT ![t] = "get"]
    /\ UNCHANGED <<status, storing, targ, trc, lastWrite>>

\* getStatus(): rwLock.RLock() returns
GetStatusRLock(t) ==
    /\ top[t] = "get"
    /\ RLock(t)
    /\ UNCHANGED statusVars

\* getStatus(): const auto rc = status
GetStatusRead(t) ==
    /\ top[t] = "get"
    /\ tpc[t] = "reading"
    /\ trc[t] = NULL
    /\ \E v \in LoadStatus(Subject) : trc' = [trc EXCEPT ![t] = v]
    /\ UNCHANGED <<status, storing, top, targ, lastWrite>>
    /\ UNCHANGED lockVars

\* getStatus(): rwLock.RUnlock(); return rc
GetStatusReturn(t) ==
    /\ top[t] = "get"
    /\ trc[t] # NULL
    /\ RUnlock(t)
    /\ top' = [top EXCEPT ![t] = "none"]
    /\ trc' = [trc EXCEPT ![t] = NULL]
    /\ UNCHANGED <<status, storing, targ, lastWrite>>

\* setStatus(newStatus): rwLock.Lock() is called
SetStatusCall(t, newStatus) ==
    /\ top[t] = "none"
    /\ LockCall(t)
    /\ top' = [top EXCEPT ![t] = "set"]
    /\ targ' = [targ EXCEPT ![t] = newStatus]
    /\ UNCHANGED <<status, storing, trc, lastWrite>>

\* setStatus(): inside rwLock.Lock()
SetStatusLock(t) ==
    /\ top[t] = "set"
    /\ LockMutex(t) \/ LockSem(t)
    /\ UNCHANGED statusVars

\* setStatus(): the store `status = newStatus` begins
SetStatusStore(t) ==
    /\ top[t] = "set"
    /\ tpc[t] = "writing"
    /\ t \notin storing
    /\ targ[t] # NULL
    /\ storing' = storing \cup {t}
    /\ UNCHANGED <<status, top, targ, trc, lastWrite>>
    /\ UNCHANGED lockVars

\* setStatus(): the store is complete; stores that overlap leave any of
\* the values being stored
SetStatusStored(t) ==
    /\ t \in storing
    /\ \E v \in {targ[u] : u \in storing} :
          status' = [status EXCEPT ![Subject] = v]
    /\ storing' = storing \ {t}
    /\ lastWrite' = targ[t]
    /\ targ' = [targ EXCEPT ![t] = NULL]
    /\ UNCHANGED <<top, trc>>
    /\ UNCHANGED lockVars

\* setStatus(): rwLock.UnLock()
SetStatusUnLock(t) ==
    /\ top[t] = "set"
    /\ targ[t] = NULL
    /\ UnLockCall(t) \/ UnLockSem(t)
    /\ UNCHANGED statusVars

\* setStatus(): rwLock.UnLock() gives the mutex and setStatus() returns
SetStatusReturn(t) ==
    /\ top[t] = "set"
    /\ UnLockMutex(t)
    /\ top' = [top EXCEPT ![t] = "none"]
    /\ UNCHANGED <<status, storing, targ, trc, lastWrite>>

InitStatus ==
    /\ LockInit(StatusThreads)
    /\ status = [s \in {Subject} |-> INIT]
    /\ storing = {}
    /\ top = [t \in StatusThreads |-> "none"]
    /\ targ = [t \in StatusThreads |-> NULL]
    /\ trc = [t \in StatusThreads |-> NULL]
    /\ lastWrite = INIT
    /\ ManagerUnused
    /\ DataUnused
    /\ ConcUnused

NextStatus ==
    /\ UNCHANGED mgrVars
    /\ UNCHANGED <<dataVars, concVars>>
    /\ \E t \in StatusThreads :
        \/ GetStatusCall(t)
        \/ GetStatusRLock(t)
        \/ GetStatusRead(t)
        \/ GetStatusReturn(t)
        \/ t \in Writers /\ \E x \in Status : SetStatusCall(t, x)
        \/ SetStatusLock(t)
        \/ SetStatusStore(t)
        \/ SetStatusStored(t)
        \/ SetStatusUnLock(t)
        \/ SetStatusReturn(t)

SpecStatus == InitStatus /\ [][NextStatus]_vars

\* C9: the value getStatus() reads is the value of the most recent completed
\* setStatus() store (INIT when there was none), for any interleaving.
C9_ReadLatestWrite ==
    \A t \in StatusThreads :
        (top[t] = "get" /\ trc[t] # NULL) => trc[t] = lastWrite

\* a getStatus() has read a value that an earlier setStatus() stored while
\* another thread is inside setStatus()
C9_Witness ==
    \E t \in StatusThreads :
        /\ top[t] = "get"
        /\ trc[t] # NULL
        /\ trc[t] # INIT
        /\ \E u \in StatusThreads \ {t} : top[u] = "set" /\ tpc[u] = "lock_sem"

\* ------------------------------------------------------------------------
\* Programs: Spec objects, their owners and dependency arrays
\* ------------------------------------------------------------------------

\* the SubsystemManager object itself (it is a BaseSubsystem)
Manager == "Manager"

\* non-null TaskHandle_t returned by xTaskCreateStaticPinnedToCore
TASK == "task"

\* all orders in which the elements of S can be passed to addSubsystem()
Perms(S) ==
    {f \in [1..Cardinality(S) -> S] :
        \A i, j \in 1..Cardinality(S) : i # j => f[i] # f[j]}

\* A depends on B, B depends on C
Chain3 ==
    [name |-> "Chain3",
     owner |-> [sA |-> "A", sB |-> "B", sC |-> "C"],
     deps |-> [sA |-> <<"B">>, sB |-> <<"C">>, sC |-> <<>>],
     kind |-> [A |-> "threaded", B |-> "tickable", C |-> "threaded"],
     failSetup |-> {"B"},
     failStart |-> {"C"},
     mayStop |-> {"A"},
     orders |-> Perms({"sA", "sB", "sC"})]

\* two independent chains: A depends on B, C depends on D
TwoChains ==
    [name |-> "TwoChains",
     owner |-> [sA |-> "A", sB |-> "B", sC |-> "C", sD |-> "D"],
     deps |-> [sA |-> <<"B">>, sB |-> <<>>, sC |-> <<"D">>, sD |-> <<>>],
     kind |-> [A |-> "tickable", B |-> "threaded", C |-> "threaded", D |-> "tickable"],
     failSetup |-> {},
     failStart |-> {"B"},
     mayStop |-> {},
     orders |-> Perms({"sA", "sB", "sC", "sD"})]

\* A depends on B and B depends on A
Cycle2 ==
    [name |-> "Cycle2",
     owner |-> [sA |-> "A", sB |-> "B"],
     deps |-> [sA |-> <<"B">>, sB |-> <<"A">>],
     kind |-> [A |-> "tickable", B |-> "tickable"],
     failSetup |-> {},
     failStart |-> {},
     mayStop |-> {},
     orders |-> Perms({"sA", "sB"})]

\* X has nine dependencies, more than the depth bound
Star9 ==
    [name |-> "Star9",
     owner |-> [sX |-> "X", s1 |-> "D1", s2 |-> "D2", s3 |-> "D3", s4 |-> "D4",
                s5 |-> "D5", s6 |-> "D6", s7 |-> "D7", s8 |-> "D8", s9 |-> "D9"],
     deps |-> [sX |-> <<"D1", "D2", "D3", "D4", "D5", "D6", "D7", "D8", "D9">>,
               s1 |-> <<>>, s2 |-> <<>>, s3 |-> <<>>, s4 |-> <<>>, s5 |-> <<>>,
               s6 |-> <<>>, s7 |-> <<>>, s8 |-> <<>>, s9 |-> <<>>],
     kind |-> [X |-> "tickable", D1 |-> "tickable", D2 |-> "tickable",
               D3 |-> "tickable", D4 |-> "tickable", D5 |-> "tickable",
               D6 |-> "tickable", D7 |-> "tickable", D8 |-> "tickable",
               D9 |-> "tickable"],
     failSetup |-> {},
     failStart |-> {},
     mayStop |-> {},
     orders |-> {<<"sX", "s1", "s2", "s3", "s4", "s5", "s6", "s7", "s8", "s9">>,
                 <<"s9", "s8", "s7", "s6", "s5", "s4", "s3", "s2", "s1", "sX">>,
                 <<"s1", "s2", "s3", "s4", "sX", "s5", "s6", "s7", "s8", "s9">>}]

\* a linear chain of ten subsystems: L1 depends on L2, ..., L9 on L10
Chain10 ==
    [name |-> "Chain10",
     owner |-> [c1 |-> "L1", c2 |-> "L2", c3 |-> "L3", c4 |-> "L4", c5 |-> "L5",
                c6 |-> "L6", c7 |-> "L7", c8 |-> "L8", c9 |-> "L9", c10 |-> "L10"],
     deps |-> [c1 |-> <<"L2">>, c2 |-> <<"L3">>, c3 |-> <<"L4">>, c4 |-> <<"L5">>,
               c5 |-> <<"L6">>, c6 |-> <<"L7">>, c7 |-> <<"L8">>, c8 |-> <<"L9">>,
               c9 |-> <<"L10">>, c10 |-> <<>>],
     kind |-> [L1 |-> "tickable", L2 |-> "tickable", L3 |-> "tickable",
               L4 |-> "tickable", L5 |-> "tickable", L6 |-> "tickable",
               L7 |-> "tickable", L8 |-> "tickable", L9 |-> "tickable",
               L10 |-> "tickable"],
     failSetup |-> {},
     failStart |-> {},
     mayStop |-> {},
     orders |-> {<<"c10", "c9", "c8", "c7", "c6", "c5", "c4", "c3", "c2", "c1">>,
                 <<"c1", "c2", "c3", "c4", "c5", "c6", "c7", "c8", "c9", "c10">>}]

\* constructors that pass a null spec and a spec without owner; A depends
\* on B and on Z, and Z never registers a spec
Reg ==
    [name |-> "Reg",
     owner |-> [sA |-> "A", sB |-> "B", sN |-> NULL],
     deps |-> [sA |-> <<"B", "Z">>, sB |-> <<>>, sN |-> <<"A">>],
     kind |-> [A |-> "threaded", B |-> "tickable", Z |-> "tickable"],
     failSetup |-> {"A"},
     failStart |-> {"A"},
     mayStop |-> {"B"},
     orders |-> Perms({"sA", "sB", "sN", NULL})]

\* a program that registers nothing
Empty ==
    [name |-> "Empty",
     owner |-> <<>>,
     deps |-> <<>>,
     kind |-> <<>>,
     failSetup |-> {},
     failStart |-> {},
     mayStop |-> {},
     orders |-> {<<>>, <<NULL>>}]

\* a program that registers a Spec object it has registered before: A
\* depends on B
Dup ==
    [name |-> "Dup",
     owner |-> [sA |-> "A", sB |-> "B"],
     deps |-> [sA |-> <<"B">>, sB |-> <<>>],
     kind |-> [A |-> "tickable", B |-> "threaded"],
     failSetup |-> {},
     failStart |-> {},
     mayStop |-> {},
     orders |-> {<<"sA", "sA">>, <<"sB", "sA", "sA">>, <<"sA", "sB", "sA">>,
                 <<"sB", "sA", "sB">>}]

Topologies == {Chain3, TwoChains, Cycle2, Star9, Chain10, Reg, Empty}

\* the Spec objects and the subsystems of the program
SpecObjs == DOMAIN topo.owner
Subsystems == DOMAIN topo.kind

\* spec->subsystem; not evaluated for a null spec
SpecOwner(spec) == IF spec = NULL THEN NULL ELSE topo.owner[spec]

\* ------------------------------------------------------------------------
\* SubsystemManagerClass (src/src/subsystem.cpp)
\* ------------------------------------------------------------------------

\* the setup()/start() target of the running manager operation
Target == IF mgrPc = "setup" THEN READY ELSE RUNNING

\* a check that forgets the owner
RejectNullOnly(spec) == spec = NULL

\* addSubsystem(): `spec == NULL || spec->subsystem == NULL`
RejectSpec(spec) == spec = NULL \/ SpecOwner(spec) = NULL

\* addSubsystem(): the value given to spec->next
LinkNext(head) == IF head # NULL THEN head ELSE NULL

\* addSubsystem(spec), called by the static constructors before main runs
AddSubsystem ==
    /\ mgrPc = "idle"
    /\ calls = <<>>
    /\ regIdx < Len(regOrder)
    /\ LET spec == regOrder[regIdx + 1]
           head == IF setupFlag THEN specs ELSE NULL
       IN  /\ setupFlag' = TRUE
           /\ regIdx' = regIdx + 1
           /\ IF RejectSpec(spec)
              THEN /\ specs' = head
                   /\ UNCHANGED next
              ELSE /\ next' = [next EXCEPT ![spec] = LinkNext(head)]
                   /\ specs' = spec
    /\ UNCHANGED <<topo, regOrder, taskHandle, mgrPc, cur, stack, stuck, calls,
                   log, status>>

\* the specs reachable from p over next, at most n of them
RECURSIVE ListFrom(_, _)
ListFrom(p, n) ==
    IF p = NULL \/ n = 0 THEN <<>> ELSE <<p>> \o ListFrom(next[p], n - 1)

\* the manager's list from the head; longer than the number of Spec objects
\* when the next links form a cycle
SpecList == ListFrom(specs, Cardinality(SpecObjs) + 1)

\* the search never reaches the end of the list
HANG == "HANG"

\* findSpecBySubsystem(needle), started at p
RECURSIVE FindFrom(_, _, _)
FindFrom(p, needle, n) ==
    IF p = NULL THEN NULL
    ELSE IF topo.owner[p] = needle THEN p
    ELSE IF n = 0 THEN HANG
    ELSE FindFrom(next[p], needle, n - 1)

\* findSpecBySubsystem(needle)
FindSpecBySubsystem(needle) == FindFrom(specs, needle, Cardinality(SpecObjs))

\* descendAndStartOrSetup(): `specs == NULL || spec == NULL || spec->subsystem == NULL`
EarlyReturn(spec) == specs = NULL \/ spec = NULL \/ SpecOwner(spec) = NULL

\* the frame of a fresh invocation of descendAndStartOrSetup; entry records
\* the owner's status when the invocation began
Frame(spec, desiredState, depth) ==
    [spec |-> spec, desiredState |-> desiredState, depth |-> depth, i |-> 0,
     pc |-> "deps", st |-> NULL, entry |-> status[topo.owner[spec]]]

\* call descendAndStartOrSetup(spec, desiredState, depth) on top of the frames stk
Call(spec, desiredState, depth, stk) ==
    IF EarlyReturn(spec)
    THEN stack' = stk /\ UNCHANGED stuck
    ELSE IF Len(stk) >= MaxStack
    THEN stack' = stk /\ stuck' = "overflow"
    ELSE stack' = Append(stk, Frame(spec, desiredState, depth)) /\ UNCHANGED stuck

\* setup()/start() is called from the program's main thread
CallManager(op) ==
    /\ mgrPc = "idle"
    /\ stuck = "no"
    /\ regIdx = Len(regOrder)
    /\ Len(calls) < MaxCalls
    /\ mgrPc' = op
    /\ cur' = specs
    /\ calls' = Append(calls, op)
    /\ UNCHANGED <<topo, regOrder, regIdx, setupFlag, specs, next, taskHandle,
                   stack, stuck, log, status>>

\* setup()/start(): `while (spec != NULL && spec->subsystem != NULL)`
LoopContinues(spec) == spec # NULL /\ SpecOwner(spec) # NULL

\* setup()/start(): one iteration of the while loop; spec = spec->next is
\* taken when the call returns, the list does not change in between
ManagerLoop ==
    /\ mgrPc \in {"setup", "start"}
    /\ stuck = "no"
    /\ stack = <<>>
    /\ LoopContinues(cur)
    /\ Call(cur, Target, 0, stack)
    /\ cur' = next[cur]
    /\ UNCHANGED <<topo, regOrder, regIdx, setupFlag, specs, next, taskHandle,
                   mgrPc, calls, log, status>>

\* a manager that only reports the milestone when it has subsystems
ManagerStatusIfAny(old, head, target) == IF head = NULL THEN old ELSE target

\* setup()/start(): the status the manager gives itself after the loop
ManagerStatusAfter(old, head, target) == target

\* setup()/start(): setStatus(READY / RUNNING); return getStatus()
ManagerReturn ==
    /\ mgrPc \in {"setup", "start"}
    /\ stuck = "no"
    /\ stack = <<>>
    /\ ~LoopContinues(cur)
    /\ status' = [status EXCEPT ![Manager] =
                     ManagerStatusAfter(status[Manager], specs, Target)]
    /\ mgrPc' = "idle"
    /\ UNCHANGED <<topo, regOrder, regIdx, setupFlag, specs, next, taskHandle,
                   cur, stack, stuck, calls, log>>

\* the innermost frame of descendAndStartOrSetup
TopFrame == stack[Len(stack)]

\* the frames with the innermost one replaced by f
WithTop(f) == [stack EXCEPT ![Len(stack)] = f]

\* a dependency loop that is never entered
DepLoopNever(deps, i, depth) == FALSE

\* descendAndStartOrSetup(): `deps && deps[i] && depth < 8`
DepLoopContinues(deps, i, depth) == i < Len(deps) /\ depth < MAX_DEPTH

\* descendAndStartOrSetup(): one iteration of the dependency loop,
\* descendAndStartOrSetup(s, desiredState, depth++)
DescendDep ==
    /\ stuck = "no"
    /\ stack # <<>>
    /\ TopFrame.pc = "deps"
    /\ LET f == TopFrame
           deps == topo.deps[f.spec]
       IN  /\ DepLoopContinues(deps, f.i, f.depth)
           /\ LET s == FindSpecBySubsystem(deps[f.i + 1])
                  g == [f EXCEPT !.i = f.i + 1, !.depth = f.depth + 1]
              IN  IF s = HANG
                  THEN stuck' = "hang" /\ UNCHANGED stack
                  ELSE Call(s, f.desiredState, f.depth, WithTop(g))
    /\ UNCHANGED <<topo, regOrder, regIdx, setupFlag, specs, next, taskHandle,
                   mgrPc, cur, calls, log, status>>

\* descendAndStartOrSetup(): the dependency loop ends
DescendDepsDone ==
    /\ stuck = "no"
    /\ stack # <<>>
    /\ TopFrame.pc = "deps"
    /\ ~DepLoopContinues(topo.deps[TopFrame.spec], TopFrame.i, TopFrame.depth)
    /\ stack' = WithTop([TopFrame EXCEPT !.pc = "check"])
    /\ UNCHANGED <<topo, regOrder, regIdx, setupFlag, specs, next, taskHandle,
                   mgrPc, cur, stuck, calls, log, status>>

\* descendAndStartOrSetup(): const auto status = subsystem->getStatus()
DescendCheck ==
    /\ stuck = "no"
    /\ stack # <<>>
    /\ TopFrame.pc = "check"
    /\ stack' = WithTop([TopFrame EXCEPT !.pc = "act",
                                         !.st = status[topo.owner[TopFrame.spec]]])
    /\ UNCHANGED <<topo, regOrder, regIdx, setupFlag, specs, next, taskHandle,
                   mgrPc, cur, stuck, calls, log, status>>

\* a manager that retries the setup of a faulted subsystem
ManagerActionRetry(st, desiredState) ==
    IF st = desiredState \/ st = STOPPED THEN "none"
    ELSE IF desiredState = READY /\ st \in {INIT, FAULT} THEN "Setup"
    ELSE IF desiredState = RUNNING /\ st = READY THEN "Start"
    ELSE "none"

\* a manager that starts a subsystem that was never set up
ManagerActionEager(st, desiredState) ==
    IF st = desiredState \/ st = FAULT \/ st = STOPPED THEN "none"
    ELSE IF desiredState = READY /\ st = INIT THEN "Setup"
    ELSE IF desiredState = RUNNING /\ st \in {INIT, READY} THEN "Start"
    ELSE "none"

\* descendAndStartOrSetup(): what is invoked on the owner for the status
\* read and the desired state
ManagerAction(st, desiredState) ==
    IF st = desiredState \/ st = FAULT \/ st = STOPPED THEN "none"
    ELSE IF desiredState = READY /\ st = INIT THEN "Setup"
    ELSE IF desiredState = RUNNING /\ st = READY THEN "Start"
    ELSE "none"

\* the manager is about to invoke op on subsystem x
Invoking(op, x) ==
    /\ stuck = "no"
    /\ stack # <<>>
    /\ TopFrame.pc = "act"
    /\ topo.owner[TopFrame.spec] = x
    /\ ManagerAction(TopFrame.st, TopFrame.desiredState) = op

\* descendAndStartOrSetup(): returns without invoking anything
DescendSkip ==
    /\ \E x \in Subsystems : Invoking("none", x)
    /\ stack' = SubSeq(stack, 1, Len(stack) - 1)
    /\ UNCHANGED <<topo, regOrder, regIdx, setupFlag, specs, next, taskHandle,
                   mgrPc, cur, stuck, calls, log, status>>

\* the statuses a subsystem's own setup() can leave: READY, or FAULT when
\* the setup cannot complete
SetupOutcomes(x) == IF x \in topo.failSetup THEN {READY, FAULT} ELSE {READY}

\* descendAndStartOrSetup(): subsystem->setup()
DescendSetup ==
    /\ \E x \in Subsystems :
          /\ Invoking("Setup", x)
          /\ \E r \in SetupOutcomes(x) : status' = [status EXCEPT ![x] = r]
          /\ log' = Append(log, <<"Setup", x>>)
    /\ stack' = SubSeq(stack, 1, Len(stack) - 1)
    /\ UNCHANGED <<topo, regOrder, regIdx, setupFlag, specs, next, taskHandle,
                   mgrPc, cur, stuck, calls>>

\* the results xTaskCreateStaticPinnedToCore can have for subsystem x
CreateResults(x) == IF x \in topo.failStart THEN {TASK, NULL} ELSE {TASK}

\* ThreadedSubsystem::start(): taskHandle after the conditional creation
StartHandle(st, handle, created) == IF st # FAULT THEN created ELSE handle

\* ThreadedSubsystem::start(): the status set from taskHandle
StartStatus(handle) == IF handle = NULL THEN FAULT ELSE RUNNING

\* TickableSubsystem::start(): setStatus(RUNNING) whatever the status is
TickableStart(st) == RUNNING

\* descendAndStartOrSetup(): subsystem->start()
DescendStart ==
    /\ \E x \in Subsystems :
          /\ Invoking("Start", x)
          /\ IF topo.kind[x] = "tickable"
             THEN /\ status' = [status EXCEPT ![x] = TickableStart(status[x])]
                  /\ UNCHANGED taskHandle
             ELSE \E created \in CreateResults(x) :
                    LET h == StartHandle(status[x], taskHandle[x], created)
                    IN  /\ taskHandle' = [taskHandle EXCEPT ![x] = h]
                        /\ status' = [status EXCEPT ![x] = StartStatus(h)]
          /\ log' = Append(log, <<"Start", x>>)
    /\ stack' = SubSeq(stack, 1, Len(stack) - 1)
    /\ UNCHANGED <<topo, regOrder, regIdx, setupFlag, specs, next,
                   mgrPc, cur, stuck, calls>>

\* between two manager calls the program stops a subsystem
ExternalStop ==
    /\ mgrPc = "idle"
    /\ regIdx = Len(regOrder)
    /\ \E x \in topo.mayStop :
          /\ status[x] \notin {FAULT, STOPPED}
          /\ status' = [status EXCEPT ![x] = STOPPED]
    /\ UNCHANGED mgrVars

\* the lock is free: calls made one after the other take and release it
LockUnused ==
    /\ sem = MAX_READERS
    /\ mutex = NoThread
    /\ tpc = <<>>
    /\ tcount = <<>>

\* the state when the static constructors begin, for a program out of T
InitPrograms(T) ==
    /\ LockUnused
    /\ AccessorsUnused
    /\ DataUnused
    /\ ConcUnused
    /\ topo \in T
    /\ regOrder \in topo.orders
    /\ regIdx = 0
    /\ setupFlag = FALSE
    /\ specs = NULL
    /\ next = [p \in SpecObjs |-> NULL]
    /\ status = [x \in Subsystems \cup {Manager} |-> INIT]
    /\ taskHandle = [x \in Subsystems |-> NULL]
    /\ mgrPc = "idle"
    /\ cur = NULL
    /\ stack = <<>>
    /\ stuck = "no"
    /\ calls = <<>>
    /\ log = <<>>

InitManager == InitPrograms(Topologies)

\* the bring-up thread takes a step of setup()/start()
ManagerStep ==
    /\ \/ CallManager("setup")
       \/ CallManager("start")
       \/ ManagerLoop
       \/ ManagerReturn
       \/ DescendDep
       \/ DescendDepsDone
       \/ DescendCheck
       \/ DescendSkip
       \/ DescendSetup
       \/ DescendStart
    /\ UNCHANGED lockVars
    /\ UNCHANGED <<storing, top, targ, trc, lastWrite>>
    /\ UNCHANGED <<dataVars, concVars>>

NextManager ==
    \/ ManagerStep
    \/ /\ AddSubsystem \/ ExternalStop
       /\ UNCHANGED lockVars
       /\ UNCHANGED <<storing, top, targ, trc, lastWrite>>
       /\ UNCHANGED <<dataVars, concVars>>

SpecManager == InitManager /\ [][NextManager]_vars

\* the bring-up runs on one thread that keeps running
FairSpecManager == SpecManager /\ WF_vars(ManagerStep)

\* ------------------------------------------------------------------------
\* Properties of the bring-up
\* ------------------------------------------------------------------------

\* the sequence q in reverse order
RECURSIVE Reverse(_)
Reverse(q) == IF q = <<>> THEN <<>> ELSE Append(Reverse(Tail(q)), Head(q))

\* the addSubsystem() calls made so far
CallsMade == SubSeq(regOrder, 1, regIdx)

\* a call argument that is a spec with an owner
ValidSpec(spec) == spec # NULL /\ topo.owner[spec] # NULL

\* the Spec objects in the manager's list
ListedSpecs == {SpecList[k] : k \in 1..Len(SpecList)}

\* the subsystems x depends on, by the dependency array of its listed spec
DepsOf(x) ==
    UNION {{topo.deps[p][k] : k \in 1..Len(topo.deps[p])} :
              p \in {q \in ListedSpecs : topo.owner[q] = x}}

\* the subsystems reachable from the set S over at most n dependency edges
RECURSIVE Reach(_, _)
Reach(S, n) ==
    IF n = 0 THEN S ELSE Reach(S \cup UNION {DepsOf(x) : x \in S}, n - 1)

\* no subsystem depends on itself, directly or indirectly
Acyclic ==
    \A x \in Subsystems : x \notin Reach(DepsOf(x), Cardinality(Subsystems))

\* every subsystem of the program has a listed spec
AllListed == \A x \in Subsystems : \E p \in ListedSpecs : topo.owner[p] = x

\* no Setup()/Start() has failed and nothing was stopped
AllSucceeded == \A x \in Subsystems : status[x] \notin {FAULT, STOPPED}

\* the status a dependency must have before op is invoked on its dependent
Milestone(op) == IF op = "Setup" THEN READY ELSE RUNNING

\* C2: when the manager invokes Setup() (Start()) on the owner of a spec of an
\* acyclic program without failures, every subsystem in the owner's
\* dependency array is already Ready (Running).
C2_DepsAdvancedFirst ==
    \A op \in {"Setup", "Start"} : \A x \in Subsystems :
        (Invoking(op, x) /\ Acyclic /\ AllListed /\ AllSucceeded) =>
            \A d \in DepsOf(x) : status[d] = Milestone(op)

\* A and B are listed and each has the other in its dependency array
CycleAB ==
    /\ {"A", "B"} \subseteq Subsystems
    /\ "B" \in DepsOf("A")
    /\ "A" \in DepsOf("B")

\* C3: with A and B in a dependency cycle a call of setup() returns, and
\* then A or B is not Ready.
C3_CycleSetupReturns ==
    [](( /\ mgrPc = "setup"
         /\ CycleAB )
        => <>( /\ mgrPc = "idle"
               /\ CycleAB
               /\ \E x \in {"A", "B"} : status[x] # READY ))

\* every subsystem depends on at most one other: disjoint linear chains
LinearChains ==
    /\ Acyclic
    /\ AllListed
    /\ \A p \in SpecObjs : Len(topo.deps[p]) <= 1
    /\ \A x \in Subsystems : Cardinality({p \in SpecObjs : topo.owner[p] = x}) = 1

\* the call of op on d completed before the call of op on x
CompletedBefore(op, d, x) ==
    \E i, j \in 1..Len(log) :
        i < j /\ log[i] = <<op, d>> /\ log[j] = <<op, x>>

\* C4: for disjoint linear chains registered in any order, after setup()
\* followed by start() without failures every subsystem is Running and in
\* each chain the Setup() and the Start() calls completed leaf first.
C4_ChainsLeafFirst ==
    ( /\ calls = <<"setup", "start">>
      /\ mgrPc = "idle"
      /\ AllSucceeded
      /\ LinearChains )
    => /\ \A x \in Subsystems : status[x] = RUNNING
       /\ \A x \in Subsystems : \A d \in DepsOf(x) :
             CompletedBefore("Setup", d, x) /\ CompletedBefore("Start", d, x)

\* the two independent chains are Running, registered with A (which depends
\* on B) and C (which depends on D) before their dependencies
C4_Witness ==
    /\ topo.name = "TwoChains"
    /\ regOrder = <<"sB", "sD", "sC", "sA">>
    /\ calls = <<"setup", "start">>
    /\ mgrPc = "idle"
    /\ \A x \in Subsystems : status[x] = RUNNING

\* C5: while the manager runs setup()/start(), a subsystem whose status is
\* Fault or Stopped keeps its status and gets no Setup() or Start() call.
C5_TerminalUntouched ==
    [][ mgrPc # "idle" =>
          \A x \in Subsystems : status[x] \in {FAULT, STOPPED} =>
              /\ status'[x] = status[x]
              /\ \/ log' = log
                 \/ log'[Len(log')][2] # x ]_vars

\* the manager reaches a faulted or stopped subsystem as a dependency of
\* another spec, in a later manager call, and returns from it
C5_Witness ==
    /\ Len(calls) >= 2
    /\ Len(stack) >= 2
    /\ \E x \in Subsystems :
          /\ status[x] \in {FAULT, STOPPED}
          /\ Invoking("none", x)

\* C7: the manager's list is the valid specs passed to addSubsystem() so
\* far, most recent first and null-terminated, and a call with a null spec or
\* a spec without owner changes neither the head nor any next link.
C7_ListIsValidSpecs ==
    /\ [](topo # <<>> => SpecList = Reverse(SelectSeq(CallsMade, ValidSpec)))
    /\ [][ (regIdx' = regIdx + 1 /\ ~ValidSpec(regOrder[regIdx + 1]))
            => (specs' = specs /\ next' = next) ]_vars

\* two specs are listed and a null spec and an ownerless spec were rejected
\* after the first of them
C7_Witness ==
    /\ topo.name = "Reg"
    /\ regIdx = 4
    /\ regOrder = <<"sB", NULL, "sN", "sA">>
    /\ specs = "sA"

\* C10: when setup() returns the manager's status is Ready and when start()
\* returns it is Running, whatever the registry holds.
C10_ManagerMilestone ==
    (mgrPc = "idle" /\ calls # <<>>) =>
        status[Manager] =
            (IF calls[Len(calls)] = "setup" THEN READY ELSE RUNNING)

\* start() was called without a prior setup() and has returned, leaving a
\* subsystem in Init
C10_Witness ==
    /\ calls = <<"start">>
    /\ mgrPc = "idle"
    /\ \E x \in Subsystems : status[x] = INIT
    /\ status[Manager] = RUNNING

\* ------------------------------------------------------------------------
\* ThreadedSubsystem::start() called directly (src/src/subsystem.cpp)
\* ------------------------------------------------------------------------

\* ThreadedSubsystem::start(): `getStatus() != FAULT`, a thread is created
CreatesThread(st) == st # FAULT

\* ThreadedSubsystem::start() on the subject; xTaskCreateStaticPinnedToCore
\* returns the handle `created` when it is called
ThreadedStart ==
    /\ Len(log) < MaxStarts
    /\ \E created \in {TASK, NULL} :
          LET st == status[Subject]
              h == StartHandle(st, taskHandle[Subject], created)
          IN  /\ CreatesThread(st) \/ created = NULL
              /\ taskHandle' = [taskHandle EXCEPT ![Subject] = h]
              /\ status' = [status EXCEPT ![Subject] = StartStatus(h)]
              /\ log' = Append(log, [before |-> st,
                                      obtained |-> created,
                                      after |-> StartStatus(h)])
    /\ UNCHANGED <<topo, regOrder, regIdx, setupFlag, specs, next, mgrPc, cur,
                   stack, stuck, calls>>

\* the subsystem's own code (its setup(), its task function) calls
\* setStatus(newStatus)
OwnerSetStatus(newStatus) ==
    /\ status[Subject] # newStatus
    /\ status' = [status EXCEPT ![Subject] = newStatus]
    /\ UNCHANGED mgrVars

InitThreaded ==
    /\ LockUnused
    /\ AccessorsUnused
    /\ DataUnused
    /\ ConcUnused
    /\ topo = <<>>
    /\ regOrder = <<>>
    /\ regIdx = 0
    /\ setupFlag = FALSE
    /\ specs = NULL
    /\ next = <<>>
    /\ status = [x \in {Subject} |-> INIT]
    /\ taskHandle = [x \in {Subject} |-> NULL]
    /\ mgrPc = "idle"
    /\ cur = NULL
    /\ stack = <<>>
    /\ stuck = "no"
    /\ calls = <<>>
    /\ log = <<>>

NextThreaded ==
    /\ \/ ThreadedStart
       \/ \E x \in Status : OwnerSetStatus(x)
    /\ UNCHANGED lockVars
    /\ UNCHANGED <<storing, top, targ, trc, lastWrite>>
    /\ UNCHANGED <<dataVars, concVars>>

SpecThreaded == InitThreaded /\ [][NextThreaded]_vars

\* C8: a start() called while the status is Fault creates no thread and
\* leaves the status Fault, and after any start() the status is Running if
\* that call obtained a thread handle and Fault otherwise.
C8_StartKeepsFault ==
    \A k \in 1..Len(log) :
        /\ log[k].before = FAULT => (log[k].obtained = NULL /\ log[k].after = FAULT)
        /\ log[k].after = (IF log[k].obtained # NULL THEN RUNNING ELSE FAULT)

\* ------------------------------------------------------------------------
\* DataThing (src/src/rwlock.h)
\* ------------------------------------------------------------------------

\* the callbacks (fn, args) the program registers
Callbacks == {"f", "g"}

\* content of a slot of the callbacks array that was never assigned
UNSET == "unset"

\* a capacity check that leaves the last slot unused
CallbacksFullEarly(n) == n >= MAX_CALLBACKS - 1

\* registerCallback(): `numCallbacks == MAX_CALLBACKS`
CallbacksFull(n) == n = MAX_CALLBACKS

\* lock.Lock() of a call made while no other call is in progress: the
\* mutex and all reader slots are free, and UnLock() frees them again
LockFree == mutex = NoThread /\ sem = MAX_READERS

\* registerCallback(fn, args), called while no callCallbacks() is running
RegisterCallback(cb) ==
    /\ dpc = "idle"
    /\ LockFree
    /\ Len(regCalls) < MaxRegs
    /\ regCalls' = Append(regCalls, cb)
    /\ IF CallbacksFull(numCallbacks)
       THEN UNCHANGED <<numCallbacks, callbacks>>
       ELSE /\ callbacks' = [callbacks EXCEPT ![numCallbacks] = cb]
            /\ numCallbacks' = numCallbacks + 1
    /\ UNCHANGED <<dpc, dn, di, invoked>>

\* callCallbacks(): auto n = numCallbacks
CallCallbacksBegin ==
    /\ dpc = "idle"
    /\ sem > 0
    /\ dpc' = "loop"
    /\ dn' = numCallbacks
    /\ di' = 0
    /\ invoked' = <<>>
    /\ UNCHANGED <<numCallbacks, callbacks, regCalls>>

\* callCallbacks(): one iteration, cb.fn(data, cb.args)
CallCallbacksInvoke ==
    /\ dpc = "loop"
    /\ di < dn
    /\ sem > 0
    /\ invoked' = Append(invoked, callbacks[di])
    /\ di' = di + 1
    /\ UNCHANGED <<numCallbacks, callbacks, dpc, dn, regCalls>>

\* callCallbacks(): the loop ends and callCallbacks() returns
CallCallbacksReturn ==
    /\ dpc = "loop"
    /\ ~(di < dn)
    /\ dpc' = "idle"
    /\ UNCHANGED <<numCallbacks, callbacks, dn, di, invoked, regCalls>>

InitData ==
    /\ LockUnused
    /\ StatusUnused
    /\ ManagerUnused
    /\ numCallbacks = 0
    /\ callbacks = [k \in 0..(MAX_CALLBACKS - 1) |-> UNSET]
    /\ dpc = "idle"
    /\ dn = 0
    /\ di = 0
    /\ invoked = <<>>
    /\ regCalls = <<>>
    /\ ConcUnused

NextData ==
    /\ \/ \E cb \in Callbacks : RegisterCallback(cb)
       \/ CallCallbacksBegin
       \/ CallCallbacksInvoke
       \/ CallCallbacksReturn
    /\ UNCHANGED lockVars
    /\ UNCHANGED statusVars
    /\ UNCHANGED mgrVars
    /\ UNCHANGED concVars

SpecData == InitData /\ [][NextData]_vars

\* the smaller of two numbers
Min(a, b) == IF a < b THEN a ELSE b

\* C6: a callCallbacks() made after k registerCallback() calls has invoked,
\* when it returns, the first min(k, 8) registered callbacks once each in
\* registration order, and a registerCallback() made with 8 callbacks stored
\* changes neither the count nor the stored callbacks.
C6_FirstEightInvoked ==
    /\ []((dpc = "loop" /\ ~(di < dn)) =>
             invoked = SubSeq(regCalls, 1, Min(Len(regCalls), MAX_CALLBACKS)))
    /\ [][ (numCallbacks = MAX_CALLBACKS /\ regCalls' # regCalls)
            => (numCallbacks' = numCallbacks /\ callbacks' = callbacks) ]_vars

\* callCallbacks() is about to return after more than 8 registrations,
\* having invoked 8 callbacks
C6_Witness ==
    /\ dpc = "loop"
    /\ ~(di < dn)
    /\ Len(regCalls) > MAX_CALLBACKS
    /\ Len(invoked) = MAX_CALLBACKS

\* C11: the recursion of descendAndStartOrSetup is bounded by depth 8 for
\* every dependency graph: no invocation ever runs with more than 8
\* enclosing invocations on the call stack, and in a linear chain of ten
\* subsystems the top-level call on the chain's head does not reach the
\* tenth
C11_DepthBounded ==
    /\ \A k \in 1..Len(stack) : k - 1 <= MAX_DEPTH
    /\ (topo = Chain10 /\ stack # <<>> /\ stack[1].spec = "c1")
          => \A k \in 1..Len(stack) : stack[k].spec # "c10"

\* C13: when a subsystem D in the dependency array of X has status Fault or
\* Stopped, the manager does not advance X: it invokes neither Setup() nor
\* Start() on X.
C13_FaultyDepStalls ==
    \A x \in Subsystems : \A op \in {"Setup", "Start"} :
        Invoking(op, x) => \A d \in DepsOf(x) : status[d] \notin {FAULT, STOPPED}

\* C14: the manager invokes Setup() on a subsystem only when its status is
\* Init and the target is Ready, and Start() only when its status is Ready
\* and the target is Running; so start() invokes nothing on an Init
\* subsystem and a repeated pass invokes nothing on an advanced one.
C14_InvokeOnlyFromPredecessor ==
    [][log' # log =>
         LET e == log'[Len(log')]
         IN  /\ log' = Append(log, e)
             /\ e[1] = "Setup" => (status[e[2]] = INIT /\ Target = READY)
             /\ e[1] = "Start" => (status[e[2]] = READY /\ Target = RUNNING)
             /\ \A x \in Subsystems \ {e[2]} : status'[x] = status[x]]_vars

\* start() before any setup() reaches a subsystem that is still Init and is
\* about to return without invoking anything on it
C14_Witness ==
    /\ calls = <<"start">>
    /\ log = <<>>
    /\ \E x \in Subsystems : Invoking("none", x) /\ status[x] = INIT

\* the invocation of frame f began with its owner's status equal to the
\* target, or Fault or Stopped
SkipsAtEntry(f) == f.entry = f.desiredState \/ f.entry \in {FAULT, STOPPED}

\* C15 as stated: an invocation of descendAndStartOrSetup on a spec whose
\* owner's status already equals the target, or is Fault or Stopped, invokes
\* no Setup() or Start() on any subsystem, the owner's dependencies
\* included, and changes no status.
C15_SkipInvokesNothing ==
    [][(\E k \in 1..Len(stack) : SkipsAtEntry(stack[k]))
          => (log' = log /\ status' = status)]_vars

\* C15 amended: such an invocation invokes no Setup() or Start() on the
\* owner and leaves the owner's status; it still descends into the owner's
\* dependency array first and advances those subsystems.
C15_SkipLeavesOwner ==
    [][\A k \in 1..Len(stack) :
          SkipsAtEntry(stack[k]) =>
             LET x == topo.owner[stack[k].spec]
             IN  /\ status'[x] = status[x]
                 /\ log' # log => log'[Len(log')][2] # x]_vars

\* inside an invocation on an owner that was Fault or Stopped at entry, the
\* manager is about to invoke Setup() on one of its dependencies
C15_Witness ==
    /\ Len(stack) >= 2
    /\ stack[1].entry \in {FAULT, STOPPED}
    /\ \E x \in Subsystems :
          /\ x \in DepsOf(topo.owner[stack[1].spec])
          /\ Invoking("Setup", x)

\* ------------------------------------------------------------------------
\* The bring-up with another thread setting statuses
\* ------------------------------------------------------------------------

\* while the manager runs setup()/start(), another thread calls
\* setStatus(FAULT) or setStatus(STOPPED) on a subsystem
ConcurrentStop ==
    /\ mgrPc # "idle"
    /\ stuck = "no"
    /\ \E x \in topo.mayStop : \E newStatus \in {FAULT, STOPPED} :
          /\ status[x] \notin {FAULT, STOPPED}
          /\ status' = [status EXCEPT ![x] = newStatus]
    /\ UNCHANGED mgrVars
    /\ UNCHANGED lockVars
    /\ UNCHANGED <<storing, top, targ, trc, lastWrite>>
    /\ UNCHANGED <<dataVars, concVars>>

NextConcurrent == NextManager \/ ConcurrentStop

SpecConcurrent == InitManager /\ [][NextConcurrent]_vars

\* C12: a status that another thread sets to Stopped or Fault while the
\* manager runs setup()/start(), also between the manager's status check and
\* its call of Start(), is never overwritten by Running.
C12_ConcurrentStopKept ==
    [][\A x \in Subsystems :
          status[x] \in {FAULT, STOPPED} => status'[x] # RUNNING]_vars

\* ------------------------------------------------------------------------
\* Programs that register a spec more than once
\* ------------------------------------------------------------------------

InitRegistry == InitPrograms(Topologies \cup {Dup})

SpecRegistry == InitRegistry /\ [][NextManager]_vars

\* C20: after any sequence of addSubsystem() calls, the same Spec object
\* registered more than once included, the manager's list is a finite
\* null-terminated chain: following next from the head reaches null without
\* meeting a spec twice.
C20_ListAcyclic == Len(SpecList) <= Cardinality(SpecObjs)

\* ------------------------------------------------------------------------
\* Writers only
\* ------------------------------------------------------------------------

InitWriters ==
    /\ LockInit(Lockers)
    /\ StatusUnused
    /\ ManagerUnused
    /\ DataUnused
    /\ ConcUnused

\* thread t waits for the mutex in Lock() and gets it
LockMutexStep(t) ==
    /\ LockMutex(t)
    /\ UNCHANGED <<statusVars, mgrVars, dataVars, concVars>>

\* thread t goes on inside Lock(), calls UnLock() or goes on inside UnLock()
WriterStep(t) ==
    /\ LockSem(t) \/ UnLockCall(t) \/ UnLockSem(t) \/ UnLockMutex(t)
    /\ UNCHANGED <<statusVars, mgrVars, dataVars, concVars>>

NextWriters ==
    \E t \in Lockers :
        \/ LockCall(t) /\ UNCHANGED <<statusVars, mgrVars, dataVars, concVars>>
        \/ LockMutexStep(t)
        \/ WriterStep(t)

SpecWriters == InitWriters /\ [][NextWriters]_vars

\* every thread keeps running, a writer eventually calls UnLock(), and the
\* tasks blocked on the mutex are woken in turn
FairSpecWriters ==
    /\ SpecWriters
    /\ \A t \in Lockers : WF_vars(WriterStep(t)) /\ SF_vars(LockMutexStep(t))

\* thread t holds reader slots as a writer: it is inside the loop of Lock(),
\* holds the write lock, or is giving the slots back in UnLock()
InWriterRole(t) == tpc[t] \in {"lock_sem", "writing", "unlock_sem", "unlock_mutex"}

NestedRLockCall(t) ==
    /\ tpc[t] = "reading"
    /\ tpc' = [tpc EXCEPT ![t] = "rlock2"]
    /\ UNCHANGED <<sem, mutex, tcount>>

\* the inner RLock(): xSemaphoreTake(sem) succeeds
NestedRLock(t) ==
    /\ tpc[t] = "rlock2"
    /\ sem > 0
    /\ sem' = sem - 1
    /\ tpc' = [tpc EXCEPT ![t] = "reading2"]
    /\ UNCHANGED <<mutex, tcount>>

\* the inner RUnlock(): xSemaphoreGive(sem)
NestedRUnlock(t) ==
    /\ tpc[t] = "reading2"
    /\ sem' = SemGive(sem)
    /\ tpc' = [tpc EXCEPT ![t] = "reading"]
    /\ UNCHANGED <<mutex, tcount>>

InitNested ==
    /\ LockInit(Nesters)
    /\ StatusUnused
    /\ ManagerUnused
    /\ DataUnused
    /\ ConcUnused

NextNested ==
    /\ \E t \in Nesters :
        \/ RLockCall(t)
        \/ RLock(t)
        \/ RUnlock(t)
        \/ NestedRLockCall(t)
        \/ NestedRLock(t)
        \/ NestedRUnlock(t)
        \/ t \in Writers /\ LockCall(t)
        \/ LockMutex(t)
        \/ LockSem(t)
        \/ UnLockCall(t)
        \/ UnLockSem(t)
        \/ UnLockMutex(t)
    /\ UNCHANGED <<statusVars, mgrVars, dataVars, concVars>>

SpecNested == InitNested /\ [][NextNested]_vars

\* thread t is inside a blocking take that cannot succeed now
Blocked(t) ==
    \/ tpc[t] \in {"rlock", "rlock2", "lock_sem"} /\ sem = 0
    \/ tpc[t] = "lock_mutex" /\ mutex # NoThread

\* C19: a thread that holds one reader slot and takes a second one on the
\* same lock obtains it even when another thread is inside Lock(): the
\* nested reader and the writer are never both blocked with nothing left
\* that could release a slot.
C19_NestedReadObtained ==
    ~ /\ \E r \in DOMAIN tpc : tpc[r] = "rlock2"
      /\ \E w \in DOMAIN tpc : tpc[w] = "lock_sem"
      /\ \A t \in DOMAIN tpc : Blocked(t)

\* ------------------------------------------------------------------------
\* One writer and readers that take the read lock again and again
\* ------------------------------------------------------------------------

InitStarve ==
    /\ LockInit(Starvers)
    /\ StatusUnused
    /\ ManagerUnused
    /\ DataUnused
    /\ ConcUnused

\* what the other variables do during a step of the lock
StarveFrame == UNCHANGED <<statusVars, mgrVars, dataVars, dsnap, rcb, rpc>>

\* a step of reader t: it takes and gives the read lock until told to quit
ReaderProgram(t) ==
    /\ \/ ~quit /\ RLockCall(t)
       \/ RLock(t)
       \/ RUnlock(t)
    /\ UNCHANGED quit
    /\ StarveFrame

\* a step of the writer: Lock(), UnLock(), again and again
WriterProgram(t) ==
    /\ \/ LockCall(t)
       \/ LockMutex(t)
       \/ LockSem(t)
       \/ UnLockCall(t)
       \/ UnLockSem(t)
       \/ UnLockMutex(t)
    /\ UNCHANGED quit
    /\ StarveFrame

\* the readers are told to stop taking the lock
ReadersQuit ==
    /\ ~quit
    /\ quit' = TRUE
    /\ UNCHANGED lockVars
    /\ StarveFrame

\* the schedule, while the readers go on: a reader that holds a slot is
\* next scheduled when no slot is free
ReaderScheduled(t) == tpc[t] = "reading" => sem = 0

\* the schedule, while the readers go on: the writer is scheduled in the loop
\* of Lock() while more slots are free than there are readers
WriterScheduled(t) ==
    tpc[t] = "lock_sem" => tcount[t] < MAX_READERS - Cardinality(StarveReaders)

\* a step of reader t under the schedule
StarveReader(t) == ReaderProgram(t) /\ (quit \/ ReaderScheduled(t))

\* a step of the writer under the schedule
StarveWriter(t) == WriterProgram(t) /\ (quit \/ WriterScheduled(t))

NextStarve ==
    \/ \E t \in StarveReaders : StarveReader(t)
    \/ StarveWriter(StarvedWriter)
    \/ ReadersQuit

\* the scheduler runs every thread it can run again and again
SpecStarve ==
    /\ InitStarve
    /\ [][NextStarve]_vars
    /\ \A t \in StarveReaders : SF_vars(StarveReader(t))
    /\ WF_vars(StarveWriter(StarvedWriter))

\* the writer is inside Lock()
LockPending(t) == tpc[t] \in {"lock_mutex", "lock_sem"}

\* C17: with readers that take and give the read lock again and again there
\* is an execution, weakly fair to every thread, in which a pending Lock()
\* never returns: every execution of this schedule is one of the lock, is
\* weakly fair to the writer and to every reader, and has no Lock() return
\* while the readers go on; and once the readers stop taking the lock the
\* pending Lock() returns.
C17_WriterStarves ==
    /\ [][(\E t \in StarveReaders : ReaderProgram(t))
            \/ WriterProgram(StarvedWriter) \/ ReadersQuit]_vars
    /\ WF_vars(WriterProgram(StarvedWriter))
    /\ \A t \in StarveReaders : WF_vars(ReaderProgram(t))
    /\ [](~quit => ~WriteHolder(StarvedWriter))
    /\ (quit /\ LockPending(StarvedWriter)) ~> WriteHolder(StarvedWriter)

\* the readers go on, the writer waits in the loop of Lock() and no slot is
\* free: it holds five slots and each reader holds one
C17_Witness ==
    /\ ~quit
    /\ tpc[StarvedWriter] = "lock_sem"
    /\ sem = 0
    /\ \A t \in StarveReaders : ReadHolder(t)

\* ------------------------------------------------------------------------
\* DataThing: callCallbacks() next to registerCallback()
\* ------------------------------------------------------------------------

\* content of a slot while `callbacks[numCallbacks] = cb` is being stored
PARTIAL == "partial"

\* what a step of the DataThing leaves alone
DataFrame == UNCHANGED <<statusVars, mgrVars, quit>>

\* registerCallback(fn, args): lock.Lock() is called
RegCall(t, cb) ==
    /\ rpc[t] = "none"
    /\ Len(regCalls) < MaxConcRegs
    /\ LockCall(t)
    /\ rpc' = [rpc EXCEPT ![t] = "lock"]
    /\ rcb' = [rcb EXCEPT ![t] = cb]
    /\ regCalls' = Append(regCalls, cb)
    /\ UNCHANGED <<numCallbacks, callbacks, dpc, dn, di, invoked, dsnap>>
    /\ DataFrame

\* registerCallback(): inside lock.Lock()
RegLock(t) ==
    /\ rpc[t] = "lock"
    /\ LockMutex(t) \/ LockSem(t)
    /\ rpc' = [rpc EXCEPT ![t] = IF tpc'[t] = "writing" THEN "check" ELSE "lock"]
    /\ UNCHANGED <<dataVars, dsnap, rcb>>
    /\ DataFrame

\* registerCallback(): the capacity check; when there is room the store
\* `callbacks[numCallbacks] = cb` begins
RegCheck(t) ==
    /\ rpc[t] = "check"
    /\ IF CallbacksFull(numCallbacks)
       THEN /\ rpc' = [rpc EXCEPT ![t] = "unlock"]
            /\ UNCHANGED callbacks
       ELSE /\ rpc' = [rpc EXCEPT ![t] = "store"]
            /\ callbacks' = [callbacks EXCEPT ![numCallbacks] = PARTIAL]
    /\ UNCHANGED <<numCallbacks, dpc, dn, di, invoked, regCalls, dsnap, rcb>>
    /\ UNCHANGED lockVars
    /\ DataFrame

\* registerCallback(): the store `callbacks[numCallbacks] = cb` completes
RegStore(t) ==
    /\ rpc[t] = "store"
    /\ callbacks' = [callbacks EXCEPT ![numCallbacks] = rcb[t]]
    /\ rpc' = [rpc EXCEPT ![t] = "count"]
    /\ UNCHANGED <<numCallbacks, dpc, dn, di, invoked, regCalls, dsnap, rcb>>
    /\ UNCHANGED lockVars
    /\ DataFrame

\* registerCallback(): numCallbacks++
RegCount(t) ==
    /\ rpc[t] = "count"
    /\ numCallbacks' = numCallbacks + 1
    /\ rpc' = [rpc EXCEPT ![t] = "unlock"]
    /\ UNCHANGED <<callbacks, dpc, dn, di, invoked, regCalls, dsnap, rcb>>
    /\ UNCHANGED lockVars
    /\ DataFrame

\* registerCallback(): lock.UnLock(), then return
RegUnLock(t) ==
    /\ rpc[t] = "unlock"
    /\ UnLockCall(t) \/ UnLockSem(t) \/ UnLockMutex(t)
    /\ rpc' = [rpc EXCEPT ![t] = IF tpc'[t] = "idle" THEN "none" ELSE "unlock"]
    /\ UNCHANGED <<dataVars, dsnap, rcb>>
    /\ DataFrame

\* callCallbacks() is called: lock.RLock() for the count
CcCall ==
    /\ dpc = "idle"
    /\ RLockCall(Notifier)
    /\ dpc' = "count"
    /\ UNCHANGED <<numCallbacks, callbacks, dn, di, invoked, regCalls, dsnap,
                   rcb, rpc>>
    /\ DataFrame

\* callCallbacks(): a lock.RLock() returns
CcRLock ==
    /\ dpc \in {"count", "slot"}
    /\ RLock(Notifier)
    /\ UNCHANGED <<dataVars, dsnap, rcb, rpc>>
    /\ DataFrame

\* callCallbacks(): auto n = numCallbacks
CcReadCount ==
    /\ dpc = "count"
    /\ ReadHolder(Notifier)
    /\ dn' = numCallbacks
    /\ di' = 0
    /\ invoked' = <<>>
    /\ dsnap' = [k \in 1..numCallbacks |-> callbacks[k - 1]]
    /\ dpc' = "counted"
    /\ UNCHANGED <<numCallbacks, callbacks, regCalls, rcb, rpc>>
    /\ UNCHANGED lockVars
    /\ DataFrame

\* callCallbacks(): a lock.RUnlock(); after an invocation, i++
CcRUnlock ==
    /\ dpc \in {"counted", "invoked"}
    /\ RUnlock(Notifier)
    /\ di' = IF dpc = "invoked" THEN di + 1 ELSE di
    /\ dpc' = "loop"
    /\ UNCHANGED <<numCallbacks, callbacks, dn, invoked, regCalls, dsnap, rcb, rpc>>
    /\ DataFrame

\* callCallbacks(): `i < n` holds and lock.RLock() is called
CcNext ==
    /\ dpc = "loop"
    /\ di < dn
    /\ RLockCall(Notifier)
    /\ dpc' = "slot"
    /\ UNCHANGED <<numCallbacks, callbacks, dn, di, invoked, regCalls, dsnap,
                   rcb, rpc>>
    /\ DataFrame

\* callCallbacks(): auto cb = callbacks[i]; cb.fn(data, cb.args)
CcInvoke ==
    /\ dpc = "slot"
    /\ ReadHolder(Notifier)
    /\ invoked' = Append(invoked, callbacks[di])
    /\ dpc' = "invoked"
    /\ UNCHANGED <<numCallbacks, callbacks, dn, di, regCalls, dsnap, rcb, rpc>>
    /\ UNCHANGED lockVars
    /\ DataFrame

\* callCallbacks(): `i < n` fails and callCallbacks() returns
CcReturn ==
    /\ dpc = "loop"
    /\ ~(di < dn)
    /\ dpc' = "idle"
    /\ UNCHANGED <<numCallbacks, callbacks, dn, di, invoked, regCalls, dsnap,
                   rcb, rpc>>
    /\ UNCHANGED lockVars
    /\ DataFrame

InitDataConc ==
    /\ LockInit(Registrars \cup {Notifier})
    /\ StatusUnused
    /\ ManagerUnused
    /\ numCallbacks = 0
    /\ callbacks = [k \in 0..(MAX_CALLBACKS - 1) |-> UNSET]
    /\ dpc = "idle"
    /\ dn = 0
    /\ di = 0
    /\ invoked = <<>>
    /\ regCalls = <<>>
    /\ quit = FALSE
    /\ dsnap = <<>>
    /\ rcb = [t \in Registrars |-> UNSET]
    /\ rpc = [t \in Registrars |-> "none"]

NextDataConc ==
    \/ \E t \in Registrars :
          \/ \E cb \in Callbacks : RegCall(t, cb)
          \/ RegLock(t)
          \/ RegCheck(t)
          \/ RegStore(t)
          \/ RegCount(t)
          \/ RegUnLock(t)
    \/ CcCall
    \/ CcRLock
    \/ CcReadCount
    \/ CcRUnlock
    \/ CcNext
    \/ CcInvoke
    \/ CcReturn

SpecDataConc == InitDataConc /\ [][NextDataConc]_vars

\* C18: a callCallbacks() that runs next to registerCallback() calls invokes
\* exactly the callbacks that were stored when it read the count, each once
\* and in order, never the content of an unfilled or half-written slot, and
\* never while a registerCallback() holds the write lock.
C18_InvokesSnapshot ==
    /\ [](dpc \in {"loop", "slot", "invoked"} =>
            /\ Len(dsnap) = dn
            /\ Len(invoked) = (IF dpc = "invoked" THEN di + 1 ELSE di)
            /\ Len(invoked) <= dn
            /\ invoked = SubSeq(dsnap, 1, Len(invoked)))
    /\ []((dpc = "loop" /\ ~(di < dn)) => invoked = dsnap)
    /\ [](\A k \in 1..Len(invoked) : invoked[k] \in Callbacks)
    /\ [][(invoked' # invoked /\ invoked' # <<>>)
            => \A t \in DOMAIN rpc : ~WriteHolder(t)]_vars

\* callCallbacks() has just invoked a callback of a count that is no longer
\* the current one, while a registerCallback() waits for reader slots
C18_Witness ==
    /\ dpc = "invoked"
    /\ numCallbacks > dn
    /\ \E t \in DOMAIN rpc : rpc[t] = "lock" /\ tpc[t] = "lock_sem"

====
